---- MODULE Spec2Model ----
(***************************************************************************)
(* Tickio: inventory reservation and checkout consistency.                 *)
(*                                                                         *)
(* The model covers orders/services.py (OrderService.checkout and the      *)
(* helpers it calls), orders/views.py (cart handlers, soft holds and the   *)
(* checkout view), events/repositories.py (check_availability) and the     *)
(* database rows of events/models.py and orders/models.py.                 *)
(*                                                                         *)
(* The database is modelled with READ COMMITTED isolation and row locks:   *)
(* sold, orders and tickets hold the committed rows; txSold, txOrder and   *)
(* txItems hold the uncommitted writes of the transaction opened by        *)
(* @transaction.atomic around checkout; lock holds the owner of            *)
(* the row lock select_for_update takes on a TicketType row.               *)
(***************************************************************************)
EXTENDS Integers, Sequences, FiniteSets, Bags, TLC

\* ------------------------------------------------------------------ bounds
MaxCap == 2
MaxQty == 2
MaxAttempts == 2
MaxTime == 600

\* --------------------------------------------------------------- constants
HOLD_MINUTES == 10

HoldTTL == HOLD_MINUTES * 60

\* Sessions; every session is also the request thread running its checkout.
Procs == {"s1", "s2"}

\* Rows of the TicketType table.
TT == {"t1", "t2"}

\* An id no TicketType row has.
MissingTT == "t9"

TTIds == TT \cup {MissingTT}

NoOne == "nobody"

NoOrder == [id |-> <<NoOne, 0>>, user |-> NoOne, status |-> "none", total_amount |-> 0]

\* TicketType.price, in cents.
Price == [t \in TT |-> IF t = "t1" THEN 300 ELSE 500]

\* Steps the clock can take between requests.
TickSteps == {HoldTTL - 1, HoldTTL}

VARIABLES
    capacity,     \* TicketType.capacity
    active,       \* TicketType.active
    sold,         \* TicketType.sold, committed value
    orders,       \* committed Order rows, each with its OrderItem rows
    tickets,      \* committed Ticket rows
    holds,        \* TicketHold rows, a bag: no constraint makes a row unique
    cart,         \* session[CART_SESSION_KEY], a dict in insertion order
    now,          \* timezone.now(), in seconds
    hist,         \* history: the latest cart request, when it is recorded
    pending,      \* update_or_create calls between their get() and their write
    scan,         \* mark_as_used calls between their read and their save()
    lock,         \* owner of the row lock of each TicketType row
    pc,           \* position of each checkout request
    idx,          \* index of the cart line the request is at
    ckCart,       \* the cart argument of checkout
    viaView,      \* whether checkout was called by checkout_view
    txSold,       \* uncommitted increments of sold made by the transaction
    txOrder,      \* uncommitted Order row of the transaction
    order_items,  \* order_items list of create_order_items
    txItems,      \* uncommitted OrderItem rows
    total,        \* total of create_order_items
    result,       \* outcome of the latest attempt of each request thread
    attempts      \* number of checkout calls made by each thread

dbVars == <<capacity, active, sold, orders, tickets>>
holdVars == <<holds, cart, now>>
reqVars == <<hist, pending, scan>>
txVars == <<lock, txSold, txOrder, order_items, txItems, total>>
ckVars == <<pc, idx, ckCart, viaView, result, attempts>>
vars == <<dbVars, holdVars, reqVars, txVars, ckVars>>

\* ----------------------------------------------------------------- helpers
Max(a, b) == IF a >= b THEN a ELSE b

Min(a, b) == IF a <= b THEN a ELSE b

RECURSIVE SumQuantity(_)
SumQuantity(rows) ==
    IF rows = <<>> THEN 0 ELSE Head(rows).quantity + SumQuantity(Tail(rows))

ZeroSold == [t \in TT |-> 0]

RECURSIVE SumOver(_, _)
SumOver(f, S) ==
    IF S = {} THEN 0
    ELSE LET x == CHOOSE y \in S : TRUE IN f[x] + SumOver(f, S \ {x})

\* A read that also sees the uncommitted writes of the other transactions.
ReadSoldDirty(p, t) == sold[t] + SumOver([q \in Procs |-> txSold[q][t]], Procs)

\* The value of sold a query of request p reads: the committed row plus the
\* uncommitted writes of p's own transaction.
ReadSold(p, t) == sold[t] + txSold[p][t]

\* ---------------------------------------------------------------------- Init
\* The history of cart requests: off, or the latest request with the hold
\* quantity it wrote, the time it ran at, the hold quantity the pair had
\* before it, the request before it when that was about the same pair, and
\* the availability every session had before it.
NoAvailability == [x \in TT \X Procs |-> 0]

HistOff == [op |-> "off", session_key |-> NoOne, ticket_type |-> MissingTT,
            quantity |-> 0, at |-> 0, was |-> 0,
            prev |-> [op |-> "none", quantity |-> 0, was |-> 0],
            before |-> NoAvailability]

HistNone == [HistOff EXCEPT !.op = "none"]

\* No update_or_create call is between its get() and its write.
NoPending == [busy |-> FALSE, session_key |-> NoOne, ticket_type |-> MissingTT,
              quantity |-> 0, expires_at |-> 0, found |-> FALSE, cart |-> <<>>]

\* The tables after migration, the sessions and the request threads.
\* A unique_code that no Ticket row has.
UnknownCode == <<NoOrder.id, <<0, 0>>>>

NoScan == [busy |-> FALSE, code |-> UnknownCode, seen |-> "none",
           returned |-> "none"]

InitLedger ==
    /\ capacity \in [TT -> 0..MaxCap]
    /\ active \in [TT -> BOOLEAN]
    /\ sold = ZeroSold
    /\ orders = {}
    /\ tickets = {}
    /\ holds = EmptyBag
    /\ cart = [p \in Procs |-> <<>>]
    /\ now = 0
    /\ lock = [t \in TT |-> NoOne]
    /\ pc = [p \in Procs |-> "idle"]
    /\ idx = [p \in Procs |-> 0]
    /\ ckCart = [p \in Procs |-> <<>>]
    /\ viaView = [p \in Procs |-> FALSE]
    /\ txSold = [p \in Procs |-> ZeroSold]
    /\ txOrder = [p \in Procs |-> NoOrder]
    /\ order_items = [p \in Procs |-> <<>>]
    /\ txItems = [p \in Procs |-> <<>>]
    /\ total = [p \in Procs |-> 0]
    /\ result = [p \in Procs |-> "none"]
    /\ attempts = [p \in Procs |-> 0]
    /\ pending = [p \in Procs |-> NoPending]
    /\ scan = [p \in Procs |-> NoScan]

Init == InitLedger /\ hist = HistOff

\* ------------------------------------------------- transaction.atomic
\* Row locks are released when the transaction ends.
ReleaseLocks(p) == [t \in TT |-> IF lock[t] = p THEN NoOne ELSE lock[t]]

\* The transaction-local state is gone once the transaction has ended.
EndTransaction(p) ==
    /\ lock' = ReleaseLocks(p)
    /\ txSold' = [txSold EXCEPT ![p] = ZeroSold]
    /\ txOrder' = [txOrder EXCEPT ![p] = NoOrder]
    /\ order_items' = [order_items EXCEPT ![p] = <<>>]
    /\ txItems' = [txItems EXCEPT ![p] = <<>>]
    /\ total' = [total EXCEPT ![p] = 0]

\* A rollback that leaves the UPDATE of sold behind.
RollbackKeepsSold(p) ==
    /\ sold' = [t \in TT |-> sold[t] + txSold[p][t]]
    /\ orders' = orders
    /\ tickets' = tickets

\* A rollback that leaves the Order row behind, as when the row is created
\* outside the atomic block.
RollbackKeepsOrder(p) ==
    /\ sold' = sold
    /\ orders' = IF txOrder[p] = NoOrder THEN orders
                 ELSE orders \cup {[id |-> txOrder[p].id,
                                    user |-> txOrder[p].user,
                                    status |-> txOrder[p].status,
                                    total_amount |-> txOrder[p].total_amount,
                                    items |-> <<>>]}
    /\ tickets' = tickets

\* An exception leaves the atomic block: every write of the transaction is
\* discarded.
Rollback(p) ==
    /\ sold' = sold
    /\ orders' = orders
    /\ tickets' = tickets

\* The arguments of a checkout call end with the call.
ReturnFromCheckout(p) ==
    ckCart' = [ckCart EXCEPT ![p] = <<>>]

\* checkout raises ValidationError: the transaction rolls back and the caller
\* gets the error; idx stays at the cart line the error is about.
\* checkout_view catches ValueError only, so the error leaves the view before
\* the cart and the holds are touched.
Raise(p, reason) ==
    /\ Rollback(p)
    /\ EndTransaction(p)
    /\ pc' = [pc EXCEPT ![p] = "idle"]
    /\ result' = [result EXCEPT ![p] = reason]
    /\ ReturnFromCheckout(p)
    /\ UNCHANGED <<capacity, active, holdVars, reqVars, idx, viaView, attempts>>

\* ------------------------------------------------------ checkout(cart, user)
\* An availability check that subtracts the active holds of the other
\* sessions.
check_availability_minus_holds(p, t, q) ==
    /\ t \in TT
    /\ LET others == {h \in BagToSet(holds) :
                        /\ h.ticket_type = t /\ h.session_key # p
                        /\ h.expires_at > now}
           held == IF others = {} THEN 0
                   ELSE CopiesIn(CHOOSE h \in others : TRUE, holds)
                          * (CHOOSE h \in others : TRUE).quantity
       IN Max(capacity[t] - ReadSold(p, t) - held, 0) >= q

\* check_availability reads the row without a lock and ignores active.
check_availability(p, t, q) ==
    /\ t \in TT
    /\ Max(capacity[t] - ReadSold(p, t), 0) >= q

\* The re-check of create_order_items without the comparison.
LineAlwaysAvailable(p, t, q) == TRUE

\* The re-check of create_order_items, made while holding the row lock.
LineAvailable(p, t, q) == ~(ReadSold(p, t) + q > capacity[t])

\* A SELECT that does not lock.
SelectWithoutLock(p, t) == TRUE

\* select_for_update returns once no other transaction holds the row lock.
CanLock(p, t) == lock[t] \in {NoOne, p}

\* Carts a direct caller of checkout may pass: the values of a dict, each
\* with a ticket_type_id and a quantity.  One-line carts take every id and
\* quantity; two-line carts are made of single units.
CartQtys == -1..MaxCap

Lines == [ticket_type_id : TTIds, quantity : CartQtys]

UnitLines == [ticket_type_id : TT, quantity : {1}]

ServiceCarts == {<<>>} \cup {<<l>> : l \in Lines}
                  \cup {<<l1, l2>> : l1 \in UnitLines, l2 \in UnitLines}

\* The checkout calls made so far.
Attempts == SumOver(attempts, Procs)

\* The first two tests of validate_checkout_request read no row: an empty
\* cart and an unauthenticated user are refused as the call is made.
Refused(c, u) == IF c = <<>> THEN "empty" ELSE IF ~u THEN "unauth" ELSE "none"

\* OrderService.checkout(cart, user) is entered by request p.
\* A checkout that writes the Order row before it validates the request, so
\* that a refused call leaves the row.
enter_creates_order_first(p, c, u) ==
    /\ pc[p] = "idle"
    /\ Attempts < MaxAttempts
    /\ attempts' = [attempts EXCEPT ![p] = @ + 1]
    /\ result' = [result EXCEPT ![p] = Refused(c, u)]
    /\ IF Refused(c, u) # "none"
       THEN /\ pc' = pc
            /\ idx' = [idx EXCEPT ![p] = 0]
            /\ ckCart' = [ckCart EXCEPT ![p] = <<>>]
            /\ orders' = orders \cup {[id |-> <<p, attempts[p] + 1>>,
                                       user |-> p, status |-> "created",
                                       total_amount |-> 0, items |-> <<>>]}
       ELSE /\ pc' = [pc EXCEPT ![p] = "validate"]
            /\ idx' = [idx EXCEPT ![p] = 1]
            /\ ckCart' = [ckCart EXCEPT ![p] = c]
            /\ orders' = orders
    /\ UNCHANGED <<capacity, active, sold, tickets, holdVars, reqVars, txVars>>

Enter(p, c, u) ==
    /\ pc[p] = "idle"
    /\ Attempts < MaxAttempts
    /\ attempts' = [attempts EXCEPT ![p] = @ + 1]
    /\ result' = [result EXCEPT ![p] = Refused(c, u)]
    /\ IF Refused(c, u) # "none"
       THEN /\ pc' = pc
            /\ idx' = [idx EXCEPT ![p] = 0]
            /\ ckCart' = [ckCart EXCEPT ![p] = <<>>]
       ELSE /\ pc' = [pc EXCEPT ![p] = "validate"]
            /\ idx' = [idx EXCEPT ![p] = 1]
            /\ ckCart' = [ckCart EXCEPT ![p] = c]
    /\ UNCHANGED <<dbVars, holdVars, reqVars, txVars>>

\* services.checkout(cart, user) called directly.
StartService(p, c, u) ==
    /\ Enter(p, c, u)
    /\ viaView' = [viaView EXCEPT ![p] = FALSE]

\* checkout_view, POST, of a logged-in user with a non-empty session cart.
StartView(p) ==
    /\ cart[p] # <<>>
    /\ Enter(p, cart[p], TRUE)
    /\ viaView' = [viaView EXCEPT ![p] = TRUE]

\* The id the sequence of the Order table gives the order of this attempt:
\* a value no other attempt gets, whether or not the attempt commits.
OrderId(p) == <<p, attempts[p]>>

\* Order.objects.create(user=user): an uncommitted row of the transaction.
CreateOrder(p) ==
    [txOrder EXCEPT ![p] = [id |-> OrderId(p), user |-> p, status |-> "created",
                            total_amount |-> 0]]

\* The loop of validate_checkout_request, one query at a time; after the
\* last one checkout creates the order.
\* A checkout that goes from the validation to the gateway without
\* reserving.
validate_then_charge(p) ==
    /\ pc[p] = "validate"
    /\ pc' = [pc EXCEPT ![p] = "charge"]
    /\ idx' = [idx EXCEPT ![p] = 0]
    /\ txOrder' = CreateOrder(p)
    /\ UNCHANGED <<dbVars, holdVars, reqVars, lock, txSold, order_items,
                   txItems, total, ckCart, viaView, result, attempts>>

Validate(p) ==
    /\ pc[p] = "validate"
    /\ LET data == ckCart[p][idx[p]] IN
       IF ~check_availability(p, data.ticket_type_id, data.quantity)
       THEN Raise(p, "insufficient")
       ELSE /\ IF idx[p] < Len(ckCart[p])
               THEN /\ idx' = [idx EXCEPT ![p] = @ + 1]
                    /\ pc' = pc
                    /\ txOrder' = txOrder
               ELSE /\ idx' = [idx EXCEPT ![p] = 1]
                    /\ pc' = [pc EXCEPT ![p] = "items"]
                    /\ txOrder' = CreateOrder(p)
            /\ UNCHANGED <<dbVars, holdVars, reqVars, lock, txSold,
                           order_items,
                           txItems, total, ckCart, viaView,
                           result, attempts>>

\* One Ticket for each OrderItem, whatever its quantity.
create_one_ticket_per_item(items) ==
    {[order |-> items[i].order, ticket_type |-> items[i].ticket_type,
      unique_code |-> <<i, 1>>, is_used |-> FALSE] : i \in 1..Len(items)}

\* for item in order.items.all(): for _ in range(item.quantity): one Ticket,
\* each with its own unique_code (here the item's position and the unit).
create_tickets_for_order(items) ==
    {[order |-> items[i].order, ticket_type |-> items[i].ticket_type,
      unique_code |-> <<i, n>>, is_used |-> FALSE] :
        <<i, n>> \in {<<j, m>> \in (1..Len(items)) \X (1..MaxCap) :
                         m <= items[j].quantity}}

\* One iteration of the loop of create_order_items; after the last one,
\* OrderItem.objects.bulk_create(order_items).  sold has a CHECK (sold >= 0)
\* and OrderItem.quantity is a PositiveIntegerField, so a negative value of
\* either is an IntegrityError.
ReserveLine(p) ==
    /\ pc[p] = "items"
    /\ LET data == ckCart[p][idx[p]]
           t == data.ticket_type_id
           quantity == data.quantity
           items == Append(order_items[p],
                           [order |-> txOrder[p].id,
                            ticket_type |-> t,
                            unit_price |-> Price[t],
                            quantity |-> quantity,
                            line_total |-> Price[t] * quantity])
       IN IF t \notin TT \/ ~active[t] THEN Raise(p, "not_found")
          ELSE /\ CanLock(p, t)
               /\ IF ~LineAvailable(p, t, quantity)
                  THEN Raise(p, "insufficient_locked")
                  ELSE IF ReadSold(p, t) + quantity < 0 THEN Raise(p, "error")
                  ELSE IF /\ idx[p] = Len(ckCart[p])
                          /\ \E i \in 1..Len(items) : items[i].quantity < 0
                  THEN Raise(p, "error")
                  ELSE /\ lock' = [lock EXCEPT ![t] = p]
                       /\ txSold' = [txSold EXCEPT ![p][t] = @ + quantity]
                       /\ order_items' = [order_items EXCEPT ![p] = items]
                       /\ total' = [total EXCEPT ![p] = @ + Price[t] * quantity]
                       /\ IF idx[p] < Len(ckCart[p])
                          THEN /\ idx' = [idx EXCEPT ![p] = @ + 1]
                               /\ pc' = pc
                               /\ txItems' = txItems
                          ELSE /\ idx' = [idx EXCEPT ![p] = 0]
                               /\ pc' = [pc EXCEPT ![p] = "charge"]
                               /\ txItems' = [txItems EXCEPT ![p] = items]
                       /\ UNCHANGED <<dbVars, holdVars, reqVars, txOrder,
                                      ckCart, viaView, result,
                                      attempts>>

GatewayAnswers == {"ok", "declined", "raise"}

\* A save that marks the order paid and leaves total_amount at its default.
save_paid_without_total(p) ==
    [txOrder EXCEPT ![p].status = "paid"]

\* order.total_amount = total; order.status = 'paid'; order.save()
SavePaid(p) ==
    [txOrder EXCEPT ![p].status = "paid", ![p].total_amount = total[p]]

\* The charge succeeded: the order is saved as paid, its tickets are created
\* and checkout returns the order, which commits the atomic block.
Committing(p) ==
    /\ LET paid == SavePaid(p)[p]
           made == create_tickets_for_order(txItems[p])
       IN /\ sold' = [t \in TT |-> sold[t] + txSold[p][t]]
          /\ orders' = orders \cup {[id |-> paid.id,
                                     user |-> paid.user,
                                     status |-> paid.status,
                                     total_amount |-> paid.total_amount,
                                     items |-> txItems[p]]}
          /\ tickets' = tickets \cup made
    /\ EndTransaction(p)
    /\ ReturnFromCheckout(p)
    /\ idx' = [idx EXCEPT ![p] = 0]
    /\ result' = [result EXCEPT ![p] = "paid"]
    /\ pc' = [pc EXCEPT ![p] = IF viaView[p] THEN "view_cleanup" ELSE "idle"]
    /\ UNCHANGED <<capacity, active, holdVars, reqVars, viaView, attempts>>

\* gateway.charge(total, metadata), made while the transaction is open and
\* its row locks are held, and what follows its answer.
Charge(p, answer) ==
    /\ pc[p] = "charge"
    /\ IF answer = "declined" THEN Raise(p, "declined")
       ELSE IF answer = "raise" THEN Raise(p, "gateway_error")
       ELSE Committing(p)

\* The requests a blocked request waits for, directly or through others.
Blocker(p) ==
    IF pc[p] = "items"
    THEN LET t == ckCart[p][idx[p]].ticket_type_id IN
         IF t \in TT /\ active[t] /\ lock[t] \notin {NoOne, p} THEN lock[t] ELSE NoOne
    ELSE NoOne

RECURSIVE WaitsOn(_, _, _)
WaitsOn(p, q, n) ==
    /\ n > 0
    /\ Blocker(p) # NoOne
    /\ (Blocker(p) = q \/ WaitsOn(Blocker(p), q, n - 1))

\* The database aborts one transaction of a lock cycle; the OperationalError
\* is wrapped by "except Exception" of checkout.
DeadlockVictim(p) ==
    /\ WaitsOn(p, p, Cardinality(Procs))
    /\ Raise(p, "error")
   

Checkout(p) ==
    \/ \E c \in ServiceCarts, u \in BOOLEAN : StartService(p, c, u)
    \/ Validate(p)
    \/ ReserveLine(p)
    \/ \E a \in GatewayAnswers : Charge(p, a)
    \/ DeadlockVictim(p)

NextCheckout == \E p \in Procs : Checkout(p)

\* ------------------------------------------------------- soft holds and cart
\* Sum('quantity') over the rows of a bag that satisfy keep.
RECURSIVE SumHeld(_, _)
SumHeld(rows, S) ==
    IF S = {} THEN 0
    ELSE LET h == CHOOSE x \in S : TRUE
         IN h.quantity * CopiesIn(h, rows) + SumHeld(rows, S \ {h})

\* _held_quantities with expires_at__gte in place of expires_at__gt.
held_quantities_gte(t, session_key) ==
    LET qs == {h \in BagToSet(holds) : h.ticket_type = t /\ h.expires_at >= now}
        mine == {h \in qs : h.session_key = session_key}
    IN <<SumHeld(holds, qs), SumHeld(holds, mine)>>

\* _held_quantities(ticket_type, session_key) -> (total, mine)
held_quantities(t, session_key) ==
    LET qs == {h \in BagToSet(holds) : h.ticket_type = t /\ h.expires_at > now}
        mine == {h \in qs : h.session_key = session_key}
    IN <<SumHeld(holds, qs), SumHeld(holds, mine)>>

\* _effective_available without subtracting the session's own hold.
effective_available_counts_mine(t, session_key) ==
    LET hq == held_quantities(t, session_key)
        base_available == Max(capacity[t] - sold[t], 0)
    IN Max(base_available - hq[1], 0)

\* _effective_available(ticket_type, session_key); the handlers run outside
\* any transaction and read the committed row.
effective_available(t, session_key) ==
    LET hq == held_quantities(t, session_key)
        total_holds == hq[1]
        my_hold == hq[2]
        base_available == Max(capacity[t] - sold[t], 0)
    IN Max(base_available - (total_holds - my_hold), 0)

\* The position of the line of ticket type t in a cart, 0 if it has none.
CartIndex(c, t) ==
    IF \E i \in 1..Len(c) : c[i].ticket_type_id = t
    THEN CHOOSE i \in 1..Len(c) : c[i].ticket_type_id = t
    ELSE 0

\* del cart[str(ticket_type_id)]
CartWithout(c, t) == SelectSeq(c, LAMBDA l : l.ticket_type_id # t)

\* TicketHold.objects.filter(ticket_type=t, session_key=sk)
HoldsOf(t, session_key) ==
    {h \in BagToSet(holds) : h.ticket_type = t /\ h.session_key = session_key}

\* A bag without the rows of the set S.
BagWithout(rows, S) ==
    [h \in BagToSet(rows) \ S |-> rows[h]]

\* The create() of update_or_create: no constraint of TicketHold refuses a
\* second row for the pair.
create(t, session_key, quantity, expires_at) ==
    holds (+) SetToBag({[ticket_type |-> t, session_key |-> session_key,
                         quantity |-> quantity, expires_at |-> expires_at]})

\* An upsert that creates a row whether or not the pair has one.
create_always(t, session_key, quantity, expires_at) ==
    create(t, session_key, quantity, expires_at)

\* TicketHold.objects.update_or_create(ticket_type, session_key, defaults):
\* the row of the pair is updated, or created when there is none.
\* An upsert whose defaults carry the expiry only: an existing row keeps its
\* quantity.
update_or_create_expiry_only(t, session_key, quantity, expires_at) ==
    BagWithout(holds, HoldsOf(t, session_key))
      (+) SetToBag({[ticket_type |-> t, session_key |-> session_key,
                     quantity |-> IF HoldsOf(t, session_key) = {} THEN quantity
                                  ELSE (CHOOSE h \in HoldsOf(t, session_key) :
                                            TRUE).quantity,
                     expires_at |-> expires_at]})

update_or_create(t, session_key, quantity, expires_at) ==
    BagWithout(holds, HoldsOf(t, session_key))
      (+) SetToBag({[ticket_type |-> t, session_key |-> session_key,
                     quantity |-> quantity, expires_at |-> expires_at]})

\* get() of update_or_create raises MultipleObjectsReturned.
SeveralRows(t, session_key) ==
    BagCardinality([h \in HoldsOf(t, session_key) |-> holds[h]]) > 1

\* request.POST.get('quantity', '1'), a number or not.
RawQuantities ==
    {[numeric |-> FALSE, n |-> 0]} \cup {[numeric |-> TRUE, n |-> k] : k \in -1..MaxQty}

\* quantity = max(int(quantity_raw), 1), 1 when int() raises
ParseQuantity(raw) == IF raw.numeric THEN Max(raw.n, 1) ELSE 1

\* cap = effective_avail + int(item['quantity']); if new_qty > cap: new_qty = cap
GrownQuantity(current, wanted, eff) ==
    LET cap == eff + current IN IF wanted > cap THEN cap ELSE wanted

\* The history after a cart request of session s about ticket type t that
\* left a hold of quantity q (0 when it left none).
Record(op, s, t, q) ==
    IF hist.op = "off" THEN hist
    ELSE [op |-> op, session_key |-> s, ticket_type |-> t, quantity |-> q,
          at |-> now, was |-> SumHeld(holds, HoldsOf(t, s)),
          prev |-> IF hist.session_key = s /\ hist.ticket_type = t
                   THEN [op |-> hist.op, quantity |-> hist.quantity,
                         was |-> hist.was]
                   ELSE HistOff.prev,
          before |-> [x \in TT \X Procs |-> effective_available(x[1], x[2])]]

\* A browser sends the requests of its session one at a time: the cart
\* handlers of a session run while no checkout of that session is in flight.
\* add_to_cart, POST ticket_type_id = t, quantity = raw, by session s.
add_to_cart(s, t, raw) ==
    /\ pc[s] = "idle"
    /\ t \in TT /\ active[t]
    /\ LET quantity == ParseQuantity(raw)
           effective_avail == effective_available(t, s)
           i == CartIndex(cart[s], t)
           new_qty == IF i # 0
                      THEN GrownQuantity(cart[s][i].quantity,
                                         cart[s][i].quantity + quantity,
                                         effective_avail)
                      ELSE Min(quantity, effective_avail)
       IN IF effective_avail <= 0
          THEN /\ UNCHANGED <<holds, cart>>
               /\ hist' = Record("sold_out", s, t, 0)
          ELSE /\ ~SeveralRows(t, s)
               /\ new_qty <= MaxQty
               /\ hist' = Record("add", s, t, new_qty)
               /\ cart' = [cart EXCEPT ![s] =
                             IF i # 0
                             THEN [@ EXCEPT ![i].quantity = new_qty]
                             ELSE Append(@, [ticket_type_id |-> t,
                                             quantity |-> new_qty])]
               /\ holds' = update_or_create(t, s, new_qty, now + HoldTTL)
    /\ UNCHANGED <<dbVars, now, pending, scan, txVars, ckVars>>

\* remove_from_cart without the delete of the session's hold.
remove_from_cart_keeps_hold(s, t) ==
    /\ pc[s] = "idle"
    /\ CartIndex(cart[s], t) # 0
    /\ cart' = [cart EXCEPT ![s] = CartWithout(@, t)]
    /\ holds' = holds
    /\ hist' = Record("remove", s, t, 0)
    /\ UNCHANGED <<dbVars, now, pending, scan, txVars, ckVars>>

\* remove_from_cart, POST ticket_type_id = t, by session s.
remove_from_cart(s, t) ==
    /\ pc[s] = "idle"
    /\ CartIndex(cart[s], t) # 0
    /\ cart' = [cart EXCEPT ![s] = CartWithout(@, t)]
    /\ holds' = BagWithout(holds, HoldsOf(t, s))
    /\ hist' = Record("remove", s, t, 0)
    /\ UNCHANGED <<dbVars, now, pending, scan, txVars, ckVars>>

\* update_quantity, POST ticket_type_id = t, delta = '+1' or '-1'.
\* An update that deletes the line only below zero and stores quantity 0.
update_quantity_stores_zero(s, t, delta) ==
    /\ pc[s] = "idle"
    /\ CartIndex(cart[s], t) # 0
    /\ t \in TT /\ active[t]
    /\ LET i == CartIndex(cart[s], t)
           current_qty == cart[s][i].quantity
           eff == effective_available(t, s)
           new_qty == GrownQuantity(current_qty, current_qty + delta, eff)
       IN IF current_qty + delta < 0
          THEN /\ cart' = [cart EXCEPT ![s] = CartWithout(@, t)]
               /\ holds' = BagWithout(holds, HoldsOf(t, s))
               /\ hist' = Record("drop", s, t, 0)
          ELSE /\ ~SeveralRows(t, s)
               /\ new_qty <= MaxQty
               /\ hist' = Record("update", s, t, new_qty)
               /\ cart' = [cart EXCEPT ![s][i].quantity = new_qty]
               /\ holds' = update_or_create(t, s, new_qty, now + HoldTTL)
    /\ UNCHANGED <<dbVars, now, pending, scan, txVars, ckVars>>

update_quantity(s, t, delta) ==
    /\ pc[s] = "idle"
    /\ CartIndex(cart[s], t) # 0
    /\ t \in TT /\ active[t]
    /\ LET i == CartIndex(cart[s], t)
           current_qty == cart[s][i].quantity
           eff == effective_available(t, s)
           new_qty == GrownQuantity(current_qty, current_qty + delta, eff)
       IN IF current_qty + delta < 1
          THEN /\ cart' = [cart EXCEPT ![s] = CartWithout(@, t)]
               /\ holds' = BagWithout(holds, HoldsOf(t, s))
               /\ hist' = Record("drop", s, t, 0)
          ELSE /\ ~SeveralRows(t, s)
               /\ new_qty <= MaxQty
               /\ hist' = Record("update", s, t, new_qty)
               /\ cart' = [cart EXCEPT ![s][i].quantity = new_qty]
               /\ holds' = update_or_create(t, s, new_qty, now + HoldTTL)
    /\ UNCHANGED <<dbVars, now, pending, scan, txVars, ckVars>>

\* A sweep that gives the units of the expired holds back to sold.
cleanup_gives_back_sold ==
    /\ \E h \in BagToSet(holds) : h.expires_at <= now
    /\ holds' = BagWithout(holds, {h \in BagToSet(holds) : h.expires_at <= now})
    /\ sold' = [t \in TT |->
                 Max(sold[t] - SumHeld(holds, {h \in BagToSet(holds) :
                        h.ticket_type = t /\ h.expires_at <= now}), 0)]
    /\ hist' = Record("sweep", NoOne, MissingTT, 0)
    /\ UNCHANGED <<capacity, active, orders, tickets, cart, now, pending, scan,
                   txVars, ckVars>>

\* TicketHoldRepository.cleanup_expired_holds
\* A sweep that also deletes the holds that expire within the next second.
cleanup_one_second_early ==
    /\ \E h \in BagToSet(holds) : h.expires_at <= now + 1
    /\ holds' = BagWithout(holds, {h \in BagToSet(holds) : h.expires_at <= now + 1})
    /\ hist' = Record("sweep", NoOne, MissingTT, 0)
    /\ UNCHANGED <<dbVars, cart, now, pending, scan, txVars, ckVars>>

cleanup_expired_holds ==
    /\ \E h \in BagToSet(holds) : h.expires_at <= now
    /\ holds' = BagWithout(holds, {h \in BagToSet(holds) : h.expires_at <= now})
    /\ hist' = Record("sweep", NoOne, MissingTT, 0)
    /\ UNCHANGED <<dbVars, cart, now, pending, scan, txVars, ckVars>>

\* Time passes between two requests.
Tick(d) ==
    /\ now + d <= MaxTime
    /\ now' = now + d
    /\ UNCHANGED <<dbVars, holds, cart, reqVars, txVars, ckVars>>

\* checkout_view after checkout returned the order: the session cart is
\* emptied and the holds of the session are deleted.
\* A view that empties the cart and leaves the TicketHold rows.
view_cleanup_keeps_holds(p) ==
    /\ pc[p] = "view_cleanup"
    /\ cart' = [cart EXCEPT ![p] = <<>>]
    /\ pc' = [pc EXCEPT ![p] = "idle"]
    /\ viaView' = [viaView EXCEPT ![p] = FALSE]
    /\ UNCHANGED <<dbVars, holds, now, reqVars, txVars, idx, ckCart, result,
                   attempts>>

ViewCleanup(p) ==
    /\ pc[p] = "view_cleanup"
    /\ cart' = [cart EXCEPT ![p] = <<>>]
    /\ holds' = BagWithout(holds, {h \in BagToSet(holds) : h.session_key = p})
    /\ pc' = [pc EXCEPT ![p] = "idle"]
    /\ viaView' = [viaView EXCEPT ![p] = FALSE]
    /\ UNCHANGED <<dbVars, now, reqVars, txVars, idx, ckCart, result, attempts>>

ViewCheckout(p) ==
    \/ StartView(p)
    \/ Validate(p)
    \/ ReserveLine(p)
    \/ \E a \in GatewayAnswers : Charge(p, a)
    \/ ViewCleanup(p)

\* With one ticket type on sale a checkout takes one row lock and there is no
\* lock cycle, so DeadlockVictim is not among the steps.
Next ==
    \/ \E s \in Procs, t \in TTIds, raw \in RawQuantities : add_to_cart(s, t, raw)
    \/ \E s \in Procs, t \in TTIds : remove_from_cart(s, t)
    \/ \E s \in Procs, t \in TTIds, delta \in {1, -1} : update_quantity(s, t, delta)
    \/ \E p \in Procs : ViewCheckout(p)
    \/ cleanup_expired_holds
    \/ \E d \in TickSteps : Tick(d)

\* A shop with at most one ticket type on sale: t2 is off sale.
InitShop == Init /\ ~active["t2"]

\* Shoppers: cart handlers, the checkout view, the reaper and the clock.
Spec == InitShop /\ [][Next]_vars

\* Direct callers of checkout only: no cart handler runs and no time passes.
SpecCheckout == Init /\ [][NextCheckout]_vars

\* ------------------------------------------------------- recorded requests
\* The cart requests of the sessions are recorded; t2 is off sale.
InitHolds == InitLedger /\ hist = HistNone /\ ~active["t2"]

NextHolds ==
    \/ \E s \in Procs, t \in TTIds, raw \in RawQuantities : add_to_cart(s, t, raw)
    \/ \E s \in Procs, t \in TTIds : remove_from_cart(s, t)
    \/ \E s \in Procs, t \in TTIds, delta \in {1, -1} : update_quantity(s, t, delta)
    \/ cleanup_expired_holds
    \/ \E d \in TickSteps : Tick(d)

\* Shoppers filling and emptying their carts, the reaper and the clock.
SpecHolds == InitHolds /\ [][NextHolds]_vars

\* ------------------------------------------- two requests of one session
\* Nothing keeps two requests that carry the same session cookie from running
\* at the same time.  Thread p runs add_to_cart for session k up to the get()
\* of update_or_create: it has loaded the session, computed the quantity and
\* expires_at, and looked for the row of the pair.
AddBegin(p, k, t, raw) ==
    /\ ~pending[p].busy
    /\ t \in TT /\ active[t]
    /\ LET quantity == ParseQuantity(raw)
           effective_avail == effective_available(t, k)
           i == CartIndex(cart[k], t)
           new_qty == IF i # 0
                      THEN GrownQuantity(cart[k][i].quantity,
                                         cart[k][i].quantity + quantity,
                                         effective_avail)
                      ELSE Min(quantity, effective_avail)
       IN /\ effective_avail > 0
          /\ new_qty <= MaxQty
          /\ ~SeveralRows(t, k)
          /\ pending' = [pending EXCEPT ![p] =
                [busy |-> TRUE, session_key |-> k, ticket_type |-> t,
                 quantity |-> new_qty, expires_at |-> now + HoldTTL,
                 found |-> HoldsOf(t, k) # {},
                 cart |-> IF i # 0
                          THEN [cart[k] EXCEPT ![i].quantity = new_qty]
                          ELSE Append(cart[k], [ticket_type_id |-> t,
                                                quantity |-> new_qty])]]
    /\ UNCHANGED <<dbVars, holdVars, hist, scan, txVars, ckVars>>

\* The rest of the request: the row found is updated, or a row is created
\* when get() found none, and the response saves the session as this request
\* loaded and changed it.
AddEnd(p) ==
    /\ pending[p].busy
    /\ LET r == pending[p]
       IN /\ holds' = IF r.found
                      THEN update_or_create(r.ticket_type, r.session_key,
                                            r.quantity, r.expires_at)
                      ELSE create(r.ticket_type, r.session_key,
                                  r.quantity, r.expires_at)
          /\ cart' = [cart EXCEPT ![r.session_key] = r.cart]
    /\ pending' = [pending EXCEPT ![p] = NoPending]
    /\ UNCHANGED <<dbVars, now, hist, scan, txVars, ckVars>>

NextUpsertRace ==
    \/ \E p \in Procs, k \in Procs, t \in TT, raw \in RawQuantities :
          AddBegin(p, k, t, raw)
    \/ \E p \in Procs : AddEnd(p)
    \/ \E d \in TickSteps : Tick(d)

\* Request threads serving add_to_cart for any session, two at a time.
SpecUpsertRace == InitShop /\ [][NextUpsertRace]_vars

\* ------------------------------------------------------- one-line carts
\* Callers of the service whose cart is empty or has one line, in a shop
\* with t2 off sale; a checkout then takes at most one row lock, so there is
\* no deadlock victim.
OneLineCarts == {<<>>} \cup {<<l>> : l \in Lines}

NextOneLine ==
    \/ \E p \in Procs, c \in OneLineCarts, u \in BOOLEAN : StartService(p, c, u)
    \/ \E p \in Procs : Validate(p)
    \/ \E p \in Procs : ReserveLine(p)
    \/ \E p \in Procs, a \in GatewayAnswers : Charge(p, a)

SpecOneLine == InitShop /\ [][NextOneLine]_vars

\* The same callers with a gateway that need not answer: every step of the
\* code is taken when it stays possible, and the step that follows the
\* gateway's answer happens only if the gateway answers.
SpecSilentGateway ==
    /\ SpecOneLine
    /\ \A p \in Procs : WF_vars(Validate(p)) /\ WF_vars(ReserveLine(p))

\* ------------------------------------------- ticket types of one event
\* In the other specifications t1 and t2 are ticket types of different
\* events. Here they belong to one Evento row. The query of
\* create_order_items is select_for_update().select_related('event'): the
\* SELECT ... FOR UPDATE joins the Evento row and locks it too, so the lock
\* of the event is held by whoever holds the lock of one of its ticket types.
EventLockFree(p) == \A t \in TT : lock[t] \in {NoOne, p}

\* The line that create_order_items is about to lock.
LineToLock(p) == ckCart[p][idx[p]].ticket_type_id

\* A query that finds no row (missing or inactive type) locks nothing.
ReserveLineSameEvent(p) ==
    /\ pc[p] = "items"
    /\ (LineToLock(p) \in TT /\ active[LineToLock(p)]) => EventLockFree(p)
    /\ ReserveLine(p)

InitSameEvent == Init /\ \A t \in TT : active[t]

NextSameEvent ==
    \/ \E p \in Procs, c \in OneLineCarts, u \in BOOLEAN : StartService(p, c, u)
    \/ \E p \in Procs : Validate(p)
    \/ \E p \in Procs : ReserveLineSameEvent(p)
    \/ \E p \in Procs, a \in GatewayAnswers : Charge(p, a)

SpecSameEvent == InitSameEvent /\ [][NextSameEvent]_vars

\* ------------------------------------------------- errors after the charge
\* A commit failure that happens after order.save() has reached the
\* database for good: the paid Order row stays.
commit_fails_after_autocommit(p) ==
    /\ pc[p] = "charge"
    /\ sold' = sold
    /\ orders' = orders \cup {[id |-> txOrder[p].id, user |-> txOrder[p].user,
                               status |-> "paid", total_amount |-> total[p],
                               items |-> <<>>]}
    /\ tickets' = tickets
    /\ EndTransaction(p)
    /\ pc' = [pc EXCEPT ![p] = "idle"]
    /\ result' = [result EXCEPT ![p] = "commit_error"]
    /\ ReturnFromCheckout(p)
    /\ UNCHANGED <<capacity, active, holdVars, reqVars, idx, viaView, attempts>>

\* The gateway accepted the charge and order.save() or the bulk_create of
\* the tickets raises: "except Exception" wraps the error and the exception
\* leaves the atomic block.
CommitFails(p) ==
    /\ pc[p] = "charge"
    /\ Raise(p, "commit_error")

InitFaults == Init /\ \A t \in TT : active[t]

NextFaults ==
    \/ \E p \in Procs : Checkout(p)
    \/ \E p \in Procs : CommitFails(p)

\* Direct callers, both ticket types on sale, with failing commits.
SpecFaults == InitFaults /\ [][NextFaults]_vars

\* ------------------------------------------------------------- refunds
\* order.status = 'refunded'; order.save(); return True
refund_booking(o) ==
    /\ o \in orders
    /\ o.status # "refunded"
    /\ orders' = (orders \ {o}) \cup {[o EXCEPT !.status = "refunded"]}
    /\ UNCHANGED <<capacity, active, sold, tickets, holdVars, reqVars, txVars,
                   ckVars>>

NextRefund ==
    \/ NextOneLine
    \/ \E o \in orders : refund_booking(o)

\* Callers of the service with one-line carts, and refunds of their orders.
SpecRefund == InitShop /\ [][NextRefund]_vars

\* --------------------------------------------------------- ticket scans
\* Ticket.unique_code; the model's codes are unique within an order.
TicketCode(k) == <<k.order, k.unique_code>>

\* What Ticket.objects.filter(unique_code=ticket_code).first() finds.
SeenByCode(code) ==
    IF \E k \in tickets : TicketCode(k) = code
    THEN IF (CHOOSE k \in tickets : TicketCode(k) = code).is_used
         THEN "used" ELSE "unused"
    ELSE "missing"

\* mark_as_used up to its read: the row is loaded without a lock, outside
\* any transaction.
ScanRead(p, code) ==
    /\ pc[p] = "idle"
    /\ ~scan[p].busy
    /\ scan' = [scan EXCEPT ![p] = [busy |-> TRUE, code |-> code,
                                    seen |-> SeenByCode(code),
                                    returned |-> "none"]]
    /\ UNCHANGED <<dbVars, holdVars, hist, pending, txVars, ckVars>>

\* The rest of mark_as_used: a ticket that was loaded unused is saved with
\* is_used = True and the call returns True; otherwise it returns False.
ScanWrite(p) ==
    /\ scan[p].busy
    /\ IF scan[p].seen = "unused"
       THEN /\ tickets' = {IF TicketCode(k) = scan[p].code
                           THEN [k EXCEPT !.is_used = TRUE] ELSE k :
                              k \in tickets}
            /\ scan' = [scan EXCEPT ![p].busy = FALSE, ![p].returned = "true"]
       ELSE /\ tickets' = tickets
            /\ scan' = [scan EXCEPT ![p].busy = FALSE, ![p].returned = "false"]
    /\ UNCHANGED <<capacity, active, sold, orders, holdVars, hist, pending,
                   txVars, ckVars>>

NextScan ==
    \/ NextOneLine
    \/ \E p \in Procs, k \in tickets : ScanRead(p, TicketCode(k))
    \/ \E p \in Procs : ScanRead(p, UnknownCode)
    \/ \E p \in Procs : ScanWrite(p)

\* Buyers with one-line carts and scanners that mark their tickets as used.
SpecScan == InitShop /\ [][NextScan]_vars

\* ------------------------------------------------------- two hold states
\* Two ticket types that agree on capacity, sold and active, one with holds
\* and one without, stand for two states of the system that differ in
\* TicketHold rows only.
Twin == [s1 |-> "t1", s2 |-> "t2"]

InitTwin == Init /\ capacity["t1"] = capacity["t2"] /\ active["t1"] = active["t2"]

\* The same checkout call is made in both states: s1 asks for q units of t1,
\* which sessions hold or do not hold, and s2 for q units of t2, which nobody
\* holds.
StartTwins(q, u) ==
    /\ \A p \in Procs : pc[p] = "idle" /\ attempts[p] < MaxAttempts
    /\ sold["t1"] = sold["t2"]
    /\ attempts' = [p \in Procs |-> attempts[p] + 1]
    /\ result' = [p \in Procs |-> IF u THEN "none" ELSE "unauth"]
    /\ pc' = [p \in Procs |-> IF u THEN "validate" ELSE "idle"]
    /\ idx' = [p \in Procs |-> IF u THEN 1 ELSE 0]
    /\ ckCart' = [p \in Procs |->
                    IF u THEN <<[ticket_type_id |-> Twin[p], quantity |-> q]>>
                    ELSE <<>>]
    /\ viaView' = [p \in Procs |-> FALSE]
    /\ UNCHANGED <<dbVars, holdVars, reqVars, txVars>>

\* The two calls do not interact (each touches its own ticket type), so s2
\* runs after s1 has returned; sessions use the cart between two calls.
Quiet == \A p \in Procs : pc[p] = "idle" /\ attempts["s1"] = attempts["s2"]

Turn(p) == p = "s1" \/ pc["s1"] = "idle"

TwinAdd(s, raw) == Quiet /\ add_to_cart(s, "t1", raw)

TwinRemove(s) == Quiet /\ remove_from_cart(s, "t1")

TwinUpdate(s, delta) == Quiet /\ update_quantity(s, "t1", delta)

TwinValidate(p) == Turn(p) /\ Validate(p)

TwinReserve(p) == Turn(p) /\ ReserveLine(p)

\* The gateway was reached.
Charged(r) == r \in {"paid", "declined", "gateway_error"}

\* The result that Charge gives for a gateway answer.
ResultOf(a) ==
    IF a = "declined" THEN "declined"
    ELSE IF a = "raise" THEN "gateway_error" ELSE "paid"

\* The gateway gives the second call the answer it gave the first.
TwinCharge(p, a) ==
    /\ Turn(p)
    /\ (p = "s2" /\ Charged(result["s1"])) => ResultOf(a) = result["s1"]
    /\ Charge(p, a)

NextTwin ==
    \/ \E s \in Procs, raw \in RawQuantities : TwinAdd(s, raw)
    \/ \E s \in Procs : TwinRemove(s)
    \/ \E s \in Procs, delta \in {1, -1} : TwinUpdate(s, delta)
    \/ \E d \in TickSteps : Tick(d)
    \/ \E q \in CartQtys, u \in BOOLEAN : StartTwins(q, u)
    \/ \E p \in Procs : TwinValidate(p)
    \/ \E p \in Procs : TwinReserve(p)
    \/ \E p \in Procs, a \in GatewayAnswers : TwinCharge(p, a)

\* The same checkout in two states of the system that differ in holds.
SpecTwin == InitTwin /\ [][NextTwin]_vars

\* ------------------------------------------------------------ the last unit
UnitOfT1 == <<[ticket_type_id |-> "t1", quantity |-> 1]>>

\* One unit of t1 is left.
InitRace == Init /\ capacity["t1"] = 1 /\ active["t1"]

\* Each request thread calls checkout once, for one unit of t1.
StartRace(p) ==
    /\ attempts[p] = 0
    /\ StartService(p, UnitOfT1, TRUE)

\* The gateway accepts every charge.
RaceCheckout(p) ==
    \/ StartRace(p)
    \/ Validate(p)
    \/ ReserveLine(p)
    \/ Charge(p, "ok")

NextRace == \E p \in Procs : RaceCheckout(p)

\* Two checkouts race for the last unit of t1.
SpecRace == InitRace /\ [][NextRace]_vars

\* ------------------------------------------------------------------ claims
\* Terms of the claims.
Failures == {"empty", "unauth", "insufficient", "insufficient_locked",
             "not_found", "declined", "gateway_error", "error", "commit_error"}

TicketsOf(t) == {k \in tickets : k.ticket_type = t}

TicketsOfOrder(o) == {k \in tickets : k.order = o.id}

ItemsOf(o, t) == SelectSeq(o.items, LAMBDA item : item.ticket_type = t)

RECURSIVE ItemQuantity(_, _)
ItemQuantity(S, t) ==
    IF S = {} THEN 0
    ELSE LET o == CHOOSE x \in S : TRUE
         IN SumQuantity(ItemsOf(o, t)) + ItemQuantity(S \ {o}, t)

PaidOrders == {o \in orders : o.status = "paid"}

\* The rows a committed state holds for the latest attempt of p.
RowsOfAttempt(p) ==
    {o \in orders : o.id = OrderId(p)} \cup {k \in tickets : k.order = OrderId(p)}

ActiveHolds(t) == {h \in BagToSet(holds) : h.ticket_type = t /\ h.expires_at > now}

TotalActive(t) == SumHeld(holds, ActiveHolds(t))

OwnActive(t, s) == SumHeld(holds, {h \in ActiveHolds(t) : h.session_key = s})

OthersActive(t, s) == SumHeld(holds, {h \in ActiveHolds(t) : h.session_key # s})

\* C1: in every reachable state every ticket type has 0 <= sold <= capacity,
\* for the committed row and for the row as each open transaction sees it.
C1_SoldWithinCapacity ==
    \A t \in TT :
        /\ 0 <= sold[t] /\ sold[t] <= capacity[t]
        /\ \A p \in Procs : 0 <= ReadSold(p, t) /\ ReadSold(p, t) <= capacity[t]

\* A ticket type is sold out while one shopper was refused under the lock and
\* another still has it in the cart.
C1_Witness ==
    \E t \in TT, p \in Procs, q \in Procs :
        /\ capacity[t] > 0 /\ sold[t] = capacity[t]
        /\ result[p] = "insufficient_locked"
        /\ pc[p] = "idle" /\ pc[q] = "idle"
        /\ CartIndex(cart[q], t) # 0

\* C2: the Ticket rows committed for a ticket type never exceed its capacity.
C2_TicketsWithinCapacity ==
    \A t \in TT : Cardinality(TicketsOf(t)) <= capacity[t]

\* Every unit of a ticket type has been issued and a checkout that raced
\* for it was refused.
C2_Witness ==
    \E t \in TT, p \in Procs :
        /\ capacity[t] = MaxCap
        /\ Cardinality(TicketsOf(t)) = capacity[t]
        /\ result[p] = "insufficient_locked"

\* C3: when two checkouts of one unit each race for the last unit and the
\* gateway accepts every charge, then once both have returned exactly one has
\* a paid order with one ticket, the other got the insufficient-inventory
\* error and left no row, and sold is 1.
C3_RaceOutcome ==
    (\A p \in Procs : attempts[p] = 1 /\ pc[p] = "idle") =>
        \E w \in Procs :
            /\ result[w] = "paid"
            /\ \A l \in Procs \ {w} :
                  /\ result[l] \in {"insufficient", "insufficient_locked"}
                  /\ RowsOfAttempt(l) = {}
            /\ sold["t1"] = 1
            /\ Cardinality(orders) = 1
            /\ \A o \in orders :
                  /\ o.id = OrderId(w) /\ o.status = "paid"
                  /\ Len(o.items) = 1 /\ o.items[1].quantity = 1
            /\ Cardinality(tickets) = 1
            /\ \A k \in tickets : k.order = OrderId(w) /\ k.ticket_type = "t1"

\* Both checkouts passed validation and the loser was refused by the
\* re-check made under the row lock.
C3_Witness ==
    /\ \A p \in Procs : attempts[p] = 1 /\ pc[p] = "idle"
    /\ \E l \in Procs : result[l] = "insufficient_locked"

\* C4: the step in which a checkout ends because the gateway declined the
\* charge changes no committed row: sold, Order, OrderItem and Ticket rows are
\* what they were, and no row of the attempt exists afterwards.
C4_DeclineLeavesNoTrace ==
    [][\A p \in Procs :
          (pc[p] = "charge" /\ pc'[p] = "idle" /\ result'[p] = "declined") =>
              /\ sold' = sold
              /\ orders' = orders
              /\ tickets' = tickets
              /\ \A t \in TT : txSold'[p][t] = 0
              /\ RowsOfAttempt(p)' = {}]_vars

\* A checkout that had reserved units was declined while another one paid.
C4_Witness ==
    \E p \in Procs, q \in Procs :
        /\ result[p] = "declined" /\ pc[p] = "idle"
        /\ result[q] = "paid"

\* C5: the step in which the re-check of a cart line fails ends the whole
\* checkout and leaves no increment of sold behind, also not of the lines
\* before it, and no Order or OrderItem row.
C5_InsufficientLeavesNoTrace ==
    [][\A p \in Procs :
          (pc[p] = "items" /\ pc'[p] = "idle"
             /\ result'[p] = "insufficient_locked") =>
              /\ sold' = sold
              /\ orders' = orders
              /\ tickets' = tickets
              /\ \A t \in TT : txSold'[p][t] = 0 /\ ReadSold(p, t)' = sold[t]
              /\ RowsOfAttempt(p)' = {}]_vars

\* A checkout failed on its second line after the first was reserved.
C5_Witness ==
    \E p \in Procs :
        /\ result[p] = "insufficient_locked"
        /\ pc[p] = "idle"
        /\ idx[p] = 2

\* C6: what another request reads as sold never includes the increment of a
\* checkout that has not committed: every request reads the units of the
\* committed orders plus the lines its own transaction has reserved.
C6_NoUncommittedSoldVisible ==
    \A t \in TT :
        /\ sold[t] = ItemQuantity(orders, t)
        /\ \A q \in Procs :
              ReadSold(q, t) = ItemQuantity(orders, t)
                                 + SumQuantity(ItemsOf([items |-> order_items[q]], t))

\* A request is validating while another checkout holds a reserved unit.
C6_Witness ==
    \E p \in Procs, q \in Procs, t \in TT :
        /\ p # q
        /\ txSold[p][t] > 0
        /\ pc[q] = "validate"
        /\ ckCart[q] # <<>> /\ ckCart[q][idx[q]].ticket_type_id = t

\* C7: in every committed state the Ticket rows of a ticket type are as many
\* as its sold, which is the quantity of the OrderItem rows of paid orders;
\* a checkout that returned left a paid order, and every order has exactly
\* quantity tickets for each of its lines.
C7_TicketsMatchSold ==
    /\ \A t \in TT :
          /\ Cardinality(TicketsOf(t)) = sold[t]
          /\ sold[t] = ItemQuantity(PaidOrders, t)
    /\ \A p \in Procs :
          (result[p] = "paid") =>
              \E o \in orders : o.id = OrderId(p) /\ o.status = "paid"
    /\ \A o \in orders :
          /\ o.status = "paid"
          /\ \A i \in 1..Len(o.items) :
                Cardinality({k \in TicketsOfOrder(o) : k.unique_code[1] = i
                                /\ k.ticket_type = o.items[i].ticket_type})
                  = o.items[i].quantity
          /\ \A k \in TicketsOfOrder(o) : k.unique_code[1] \in 1..Len(o.items)

\* A paid order with two units on one line, and a paid order of two lines.
C7_Witness ==
    /\ \E o \in orders : Len(o.items) = 1 /\ o.items[1].quantity = 2
    /\ \E o \in orders : Len(o.items) = 2

\* C8: for every ticket type and session, at the current time,
\* _effective_available is max(capacity - sold - (active holds of all
\* sessions - active holds of this session), 0): never negative, and
\* independent of the session's own holds.
C8_EffectiveAvailable ==
    \A t \in TT, s \in Procs :
        /\ effective_available(t, s)
             = Max(capacity[t] - sold[t] - (TotalActive(t) - OwnActive(t, s)), 0)
        /\ effective_available(t, s)
             = Max(capacity[t] - sold[t] - OthersActive(t, s), 0)
        /\ effective_available(t, s) >= 0

\* Units are sold, the session holds some, and a hold of another session has
\* reached its expiry time without being swept.
C8_Witness ==
    \E t \in TT, s \in Procs :
        /\ sold[t] > 0
        /\ OwnActive(t, s) > 0
        /\ \E h \in BagToSet(holds) :
              h.ticket_type = t /\ h.session_key # s /\ h.expires_at = now

\* C9 (as claimed): for every ticket type and owner, sold plus the active
\* holds of the other owners is at most capacity.
C9_HoldsWithinCapacity ==
    \A t \in TT, s \in Procs :
        sold[t] + TotalActive(t) - OwnActive(t, s) <= capacity[t]

\* C10 (as claimed): after add_to_cart or update_quantity by a session, its
\* cart line and hold for the ticket type are at most capacity - sold - the
\* active holds of the other sessions, as the handler read them.
C10_HoldWithinBaseLimit ==
    [][\A s \in Procs, t \in TT :
          ((\E raw \in RawQuantities : add_to_cart(s, t, raw))
             \/ (\E delta \in {1, -1} : update_quantity(s, t, delta)))
          /\ CartIndex(cart'[s], t) # 0
          => /\ cart'[s][CartIndex(cart'[s], t)].quantity
                  <= capacity[t] - sold[t] - OthersActive(t, s)
             /\ \A h \in BagToSet(holds') :
                  (h.ticket_type = t /\ h.session_key = s) =>
                      h.quantity <= capacity[t] - sold[t] - OthersActive(t, s)]_vars

\* The time a hold was created or last refreshed at, given that every upsert
\* sets expires_at to its own time plus the TTL.
RefreshedAt(h) == h.expires_at - HoldTTL

\* The holds of ticket type t, of sessions other than s, that are younger
\* than the TTL.
YoungHoldsOfOthers(t, s) ==
    {h \in BagToSet(holds) :
        h.ticket_type = t /\ h.session_key # s /\ now < RefreshedAt(h) + 600}

\* C11: an upsert at time t0 sets expires_at to t0 + 600 s, and a hold is
\* counted in the sums and in the availability of every session exactly
\* while now < t0 + 600 s, whether or not the row is still stored.
C11_HoldWindow ==
    [][/\ \A s \in Procs, t \in TT :
            ((\E raw \in RawQuantities : add_to_cart(s, t, raw))
               \/ (\E delta \in {1, -1} : update_quantity(s, t, delta)))
            /\ holds' # holds
            => \A h \in BagToSet(holds') :
                  (h.ticket_type = t /\ h.session_key = s) =>
                      h.expires_at = now + 600
       /\ \A t \in TT, s \in Procs :
            /\ held_quantities(t, s)'[1] - held_quantities(t, s)'[2]
                  = SumHeld(holds, YoungHoldsOfOthers(t, s))'
            /\ effective_available(t, s)'
                  = Max(capacity[t] - sold[t]
                          - SumHeld(holds, YoungHoldsOfOthers(t, s)), 0)']_vars

\* 600 s after a hold was made its row is still stored and the other
\* session is offered every unit again.
C11_Witness ==
    \E t \in TT, s \in Procs, o \in Procs :
        /\ o # s
        /\ now = 600
        /\ \E h \in HoldsOf(t, s) : RefreshedAt(h) = 0 /\ h.quantity > 0
        /\ capacity[t] > sold[t]
        /\ effective_available(t, o) = capacity[t] - sold[t]

\* The step is an upsert of the hold of session s for ticket type t.
Upserts(s, t) ==
    /\ \/ \E raw \in RawQuantities : add_to_cart(s, t, raw)
       \/ \E delta \in {1, -1} : update_quantity(s, t, delta)
    /\ hist'.op \in {"add", "update"}

\* The latest cart request was an upsert of quantity q for the pair.
LastUpserted(s, t, q) ==
    /\ hist.op \in {"add", "update"}
    /\ hist.session_key = s /\ hist.ticket_type = t /\ hist.quantity = q

\* C12: an upsert that follows an upsert of the same quantity for the same
\* pair leaves exactly one row for the pair, with that quantity and
\* expires_at = the time of the second upsert + TTL, not earlier than the
\* expiry the first one set.
C12_UpsertTwice ==
    [][\A s \in Procs, t \in TT, q \in 1..MaxQty :
          (LastUpserted(s, t, q) /\ Upserts(s, t) /\ hist'.quantity = q) =>
              /\ BagCardinality([h \in HoldsOf(t, s)' |-> holds'[h]]) = 1
              /\ \A h \in HoldsOf(t, s)' :
                    /\ h.quantity = q
                    /\ h.expires_at = now + HoldTTL
                    /\ h.expires_at >= hist.at + HoldTTL
                    /\ \A g \in HoldsOf(t, s) : h.expires_at >= g.expires_at]_vars

\* The latest two requests were upserts of quantity 2 for the same pair.
C12_Witness ==
    \E s \in Procs, t \in TT :
        /\ LastUpserted(s, t, 2)
        /\ hist.prev.op \in {"add", "update"} /\ hist.prev.quantity = 2
        /\ hist.was = 2
        /\ \E h \in HoldsOf(t, s) : h.quantity = 2 /\ h.expires_at = hist.at + HoldTTL

\* C13 (as claimed): there is at most one TicketHold row for each pair of a
\* ticket type and a session key, also when two upserts for the pair run
\* at the same time.
C13_OneHoldPerPair ==
    \A t \in TT, k \in Procs :
        BagCardinality([h \in HoldsOf(t, k) |-> holds[h]]) <= 1

\* No hold reached its expiry time after time t0.
NoExpirySince(t0) ==
    \A h \in BagToSet(holds) : ~(t0 < h.expires_at /\ h.expires_at <= now)

\* C14: when add_to_cart gave a session a hold for a ticket type it had no
\* hold for, and the next request is the session's remove_from_cart for that
\* ticket type, with no expiry in between, then every session has for every
\* ticket type the effective availability it had before the add.
C14_AddRemoveRoundTrip ==
    [][\A s \in Procs, t \in TT :
          (/\ hist.op = "add" /\ hist.session_key = s /\ hist.ticket_type = t
           /\ hist.was = 0
           /\ NoExpirySince(hist.at)
           /\ remove_from_cart(s, t)) =>
              \A x \in TT \X Procs :
                  effective_available(x[1], x[2])' = hist.before[x]]_vars

\* A session removed the hold its previous request had created, which had
\* lowered what the other session was offered.
C14_Witness ==
    \E s \in Procs, o \in Procs, t \in TT :
        /\ o # s
        /\ hist.op = "remove" /\ hist.session_key = s /\ hist.ticket_type = t
        /\ hist.prev.op = "add" /\ hist.prev.was = 0
        /\ hist.before[<<t, o>>] < effective_available(t, o)
        /\ HoldsOf(t, s) = {}

\* The ledger: the TicketType rows, the Order rows with their OrderItem rows
\* and the Ticket rows, committed or written by an open transaction.
Ledger == <<capacity, active, sold, orders, tickets, txSold, txOrder, txItems>>

\* C15: a step that changes a TicketHold row or a session cart (add_to_cart,
\* update_quantity, remove_from_cart, the sweep, the cleanup of checkout_view)
\* leaves capacity, sold and every Order, OrderItem and Ticket row as they
\* were, and sold changes only in the step that commits a checkout.
C15_HoldsLeaveLedger ==
    [][/\ (holds' # holds \/ cart' # cart) => Ledger' = Ledger
       /\ sold' # sold =>
            \E p \in Procs : /\ pc[p] = "charge" /\ result'[p] = "paid"
                             /\ holds' = holds /\ cart' = cart
                             /\ \A t \in TT : sold'[t] = sold[t] + txSold[p][t]
       /\ capacity' = capacity]_vars

\* Units are sold and ticketed, the checkout view has released the buyer's
\* holds, and a session holds units of the same ticket type, taken after the
\* clock moved.
C15_Witness ==
    \E t \in TT :
        /\ sold[t] > 0
        /\ Cardinality(TicketsOf(t)) = sold[t]
        /\ \A p \in Procs : pc[p] = "idle"
        /\ now > 0
        /\ \E h \in BagToSet(holds) :
              h.ticket_type = t /\ h.expires_at = now + HoldTTL

\* C16: when the same checkout call has returned in two states that agree on
\* capacity, sold, active and the gateway's answer and differ in TicketHold
\* rows, both calls have the same result and leave the same sold.
C16_CheckoutIgnoresHolds ==
    (/\ \A p \in Procs : pc[p] = "idle"
     /\ attempts["s1"] = attempts["s2"] /\ attempts["s1"] > 0) =>
        result["s1"] = result["s2"] /\ sold["t1"] = sold["t2"]

\* Both calls were paid although the other session holds every unit of t1.
C16_Witness ==
    /\ \A p \in Procs : pc[p] = "idle" /\ result[p] = "paid"
    /\ sold["t1"] = sold["t2"] /\ sold["t1"] > 0
    /\ OthersActive("t1", "s1") >= capacity["t1"]

\* The TicketHold rows of a session, for every ticket type.
HoldsOfSession(hs, s) == {h \in BagToSet(hs) : h.session_key = s}

C18_SweepOnlyExpired ==
    [][cleanup_expired_holds =>
          /\ \A h \in BagToSet(holds) :
                CopiesIn(h, holds') =
                    IF h.expires_at <= now THEN 0 ELSE CopiesIn(h, holds)
          /\ BagToSet(holds') \subseteq BagToSet(holds)
          /\ \A t \in TT, s \in Procs :
                effective_available(t, s)' = effective_available(t, s)]_vars

\* The sweep has run and left a hold that is still active and lowers what the
\* other session is offered.
C18_Witness ==
    \E s \in Procs, t \in TT :
        /\ hist.op = "sweep" /\ hist.at = now
        /\ \A h \in BagToSet(holds) : h.expires_at > now
        /\ OthersActive(t, s) > 0
        /\ effective_available(t, s) < capacity[t] - sold[t]

\* A cart line that the validation is to refuse: quantity <= 0, or a ticket
\* type that is missing or off sale.
InvalidLine(l) ==
    \/ l.quantity <= 0
    \/ l.ticket_type_id \notin TT
    \/ ~active[l.ticket_type_id]

\* C19: no checkout with an invalid line reaches the gateway, and no Order
\* is persisted with an OrderItem of quantity <= 0 or of a ticket type that
\* is off sale.
C19_InvalidCartRefused ==
    /\ \A p \in Procs :
          pc[p] = "charge" =>
              \A i \in 1..Len(ckCart[p]) : ~InvalidLine(ckCart[p][i])
    /\ \A o \in orders : \A i \in 1..Len(o.items) :
          o.items[i].quantity > 0 /\ active[o.items[i].ticket_type]

\* C20: a call of checkout with an empty cart, or without an authenticated
\* user, returns at once with the error of validate_checkout_request (the
\* empty cart is tested first); the step writes no Order, OrderItem, Ticket,
\* TicketType or TicketHold row, takes no lock, opens nothing in the
\* transaction and does not move the caller towards the gateway.
C20_RefusedBeforeAnyWrite ==
    [][\A p \in Procs :
          attempts'[p] # attempts[p] =>
              \A c \in OneLineCarts, u \in BOOLEAN :
                  (/\ c = <<>> \/ ~u
                   /\ Enter(p, c, u)) =>
                      /\ result'[p] = IF c = <<>> THEN "empty" ELSE "unauth"
                      /\ pc' = pc
                      /\ UNCHANGED <<dbVars, holdVars, txVars>>]_vars

\* One caller was refused for an empty cart and the other for the missing
\* login, and nothing was written.
C20_Witness ==
    /\ result["s1"] = "empty" /\ result["s2"] = "unauth"
    /\ \A p \in Procs : pc[p] = "idle" /\ attempts[p] > 0
    /\ orders = {} /\ tickets = {} /\ sold = ZeroSold

\* A checkout waits for a row lock whose owner waits, directly or through
\* others, for a row lock of this checkout.
InLockCycle(p) == WaitsOn(p, p, Cardinality(Procs))

\* C21: no checkout is ever in a cycle of checkouts that wait for each
\* other's TicketType row locks.
C21_NoLockCycle == \A p \in Procs : ~InLockCycle(p)

\* C22: a checkout that has called gateway.charge eventually returns, and the
\* row locks it held are free, whether or not the gateway answers.
C22_ChargeAlwaysReturns ==
    \A p \in Procs :
        (pc[p] = "charge") ~>
            (pc[p] = "idle" /\ \A t \in TT : lock[t] # p)

\* The ticket types of the lines a checkout has reserved in its transaction.
Reserved(p) == {order_items[p][i].ticket_type : i \in 1..Len(order_items[p])}

\* The ticket types of a checkout's cart.
CartTypes(p) == {ckCart[p][i].ticket_type_id : i \in 1..Len(ckCart[p])}

\* A checkout is at select_for_update and the row locks it asks for are not
\* all free.
BlockedAtLock(p) ==
    /\ pc[p] = "items"
    /\ LineToLock(p) \in TT /\ active[LineToLock(p)]
    /\ ~(CanLock(p, LineToLock(p)) /\ EventLockFree(p))

\* C23: a checkout that has reserved a line of a ticket type owns the row
\* lock of that type until its transaction ends, so two checkouts never
\* reserve the same type at once; and a checkout is never blocked at its
\* lock while no other checkout in progress has a ticket type of its cart.
C23_OnlySameTypeContends ==
    \A p \in Procs :
        /\ \A t \in Reserved(p) : lock[t] = p
        /\ (\A q \in Procs \ {p} : CartTypes(q) \cap CartTypes(p) = {}) =>
               ~BlockedAtLock(p)

\* The results of a checkout that an unexpected exception ended.
InternalErrors == {"gateway_error", "commit_error", "error"}

\* C24: the step in which a checkout ends with an unexpected error, raised
\* while it reserves, by the gateway call, by order.save() or by the creation
\* of the tickets, leaves sold, the Order, OrderItem and Ticket rows as they
\* were before the attempt, leaves no row of the attempt, and frees its locks.
C24_ErrorAfterFullRollback ==
    [][\A p \in Procs :
          (/\ pc[p] \in {"items", "charge"} /\ pc'[p] = "idle"
           /\ result'[p] \in InternalErrors) =>
              /\ sold' = sold
              /\ orders' = orders
              /\ tickets' = tickets
              /\ \A t \in TT : txSold'[p][t] = 0 /\ lock'[t] # p
              /\ RowsOfAttempt(p)' = {}]_vars

\* One checkout failed in its commit after the charge, the other was paid,
\* and the rows are those of the paid one.
C24_Witness ==
    \E p \in Procs, q \in Procs :
        /\ pc[p] = "idle" /\ pc[q] = "idle"
        /\ result[p] = "commit_error" /\ result[q] = "paid"
        /\ Cardinality(orders) = 1 /\ tickets # {}
        /\ \A t \in TT : sold[t] = ItemQuantity(orders, t)

\* C25: a step of refund_booking on a paid order leaves the order with
\* status refunded and lowers sold of every ticket type by the quantity of
\* the order's lines of that type, not below zero.
C25_RefundReleasesUnits ==
    [][\A o \in orders :
          (o.status = "paid" /\ refund_booking(o)) =>
              /\ [o EXCEPT !.status = "refunded"] \in orders'
              /\ \A t \in TT :
                    sold'[t] = Max(sold[t] - ItemQuantity({o}, t), 0)]_vars

\* The moves between the positions of a checkout: validate_checkout_request,
\* create_order_items, gateway.charge, then the commit (and the view's
\* cleanup), each left for the next one or for the return with an error.
StageOrder ==
    {<<"idle", "validate">>, <<"validate", "items">>, <<"validate", "idle">>,
     <<"items", "charge">>, <<"items", "idle">>,
     <<"charge", "idle">>, <<"charge", "view_cleanup">>,
     <<"view_cleanup", "idle">>}

\* The units of ticket type t in the lines of a cart.
RECURSIVE CartQuantity(_, _)
CartQuantity(c, t) ==
    IF c = <<>> THEN 0
    ELSE (IF Head(c).ticket_type_id = t THEN Head(c).quantity ELSE 0)
         + CartQuantity(Tail(c), t)

\* C26: a checkout moves only forward through validation, reservation,
\* charge and commit; when it reaches the gateway call every line of its cart
\* has an OrderItem, its sold increment and its row lock; and sold, Order and
\* Ticket rows change only in the step in which a checkout that was at the
\* gateway call returns paid.
C26_StagesInOrder ==
    [][/\ \A p \in Procs :
            /\ pc'[p] # pc[p] => <<pc[p], pc'[p]>> \in StageOrder
            /\ (pc'[p] = "charge" /\ pc[p] # "charge") =>
                  /\ Len(txItems'[p]) = Len(ckCart[p])
                  /\ \A i \in 1..Len(ckCart[p]) :
                        /\ txItems'[p][i].ticket_type = ckCart[p][i].ticket_type_id
                        /\ txItems'[p][i].quantity = ckCart[p][i].quantity
                        /\ lock'[ckCart[p][i].ticket_type_id] = p
                  /\ \A t \in TT : txSold'[p][t] = CartQuantity(ckCart[p], t)
       /\ (sold' # sold \/ orders' # orders \/ tickets' # tickets) =>
            \E p \in Procs :
                /\ pc[p] = "charge" /\ pc'[p] \in {"idle", "view_cleanup"}
                /\ result'[p] = "paid"]_vars

\* A checkout of two lines has been paid: its Order has both items and one
\* Ticket per unit.
C26_Witness ==
    \E p \in Procs, o \in orders :
        /\ pc[p] = "idle" /\ result[p] = "paid" /\ o.id = OrderId(p)
        /\ o.status = "paid" /\ Len(o.items) = 2
        /\ Cardinality({k \in tickets : k.order = o.id}) = 2

\* The sum of the line totals of a sequence of OrderItem rows.
RECURSIVE SumLineTotals(_)
SumLineTotals(items) ==
    IF items = <<>> THEN 0
    ELSE Head(items).line_total + SumLineTotals(Tail(items))

\* unit_price is the ticket type's price and line_total is unit_price x
\* quantity.
PricedItems(items) ==
    \A i \in 1..Len(items) :
        /\ items[i].unit_price = Price[items[i].ticket_type]
        /\ items[i].line_total = items[i].unit_price * items[i].quantity

\* C27: every paid Order has items with unit_price equal to the price of the
\* ticket type and line_total = unit_price x quantity, and a total_amount
\* equal to the sum of its line totals; and the total that a checkout passes
\* to gateway.charge is the sum of the line totals of its items.
C27_TotalsAgree ==
    /\ \A o \in orders :
          /\ PricedItems(o.items)
          /\ o.total_amount = SumLineTotals(o.items)
    /\ \A p \in Procs :
          pc[p] = "charge" =>
              /\ PricedItems(txItems[p])
              /\ total[p] = SumLineTotals(txItems[p])

\* A paid order of two lines of different ticket types, with the sum of the
\* two prices as its total.
C27_Witness ==
    \E o \in orders :
        /\ o.status = "paid" /\ Len(o.items) = 2
        /\ o.items[1].ticket_type # o.items[2].ticket_type
        /\ o.total_amount = Price["t1"] + Price["t2"]

\* C28: every line of every session cart and every TicketHold row has a
\* quantity of at least 1, whatever quantities the requests carried.
C28_QuantitiesPositive ==
    /\ \A s \in Procs : \A i \in 1..Len(cart[s]) : cart[s][i].quantity >= 1
    /\ \A h \in BagToSet(holds) : h.quantity >= 1

\* update_quantity took a session's line of quantity 1 below 1: the latest
\* request dropped the line and the hold, and the other session's line and
\* hold are there.
C28_Witness ==
    \E s \in Procs, o \in Procs, t \in TT :
        /\ o # s
        /\ hist.op = "drop" /\ hist.session_key = s /\ hist.ticket_type = t
        /\ hist.was = 1
        /\ CartIndex(cart[s], t) = 0 /\ HoldsOf(t, s) = {}
        /\ CartIndex(cart[o], t) # 0 /\ HoldsOf(t, o) # {}

\* C29: every TicketHold row belongs to a line of its session's cart: the
\* cart has a line for the row's ticket type, with the row's quantity.
C29_HoldHasCartLine ==
    \A h \in BagToSet(holds) :
        /\ CartIndex(cart[h.session_key], h.ticket_type) # 0
        /\ cart[h.session_key][CartIndex(cart[h.session_key], h.ticket_type)].quantity
              = h.quantity

\* One session has a line of two units with its hold of two units;
\* the other has a cart line whose hold expired and was swept.
C29_Witness ==
    \E s \in Procs, o \in Procs, t \in TT :
        /\ o # s
        /\ \E h \in HoldsOf(t, s) : h.quantity = 2 /\ h.expires_at > now
        /\ CartIndex(cart[o], t) # 0 /\ HoldsOf(t, o) = {}

\* C30: a ticket that is used stays used; of the calls of mark_as_used for
\* one ticket code that have returned, at most one returned True; and a call
\* for a code that no ticket has returns False.
C30_UsedOnce ==
    [][/\ \A k \in tickets : k.is_used => k \in tickets'
       /\ \A p \in Procs, q \in Procs :
             (/\ p # q
              /\ scan'[p].returned = "true" /\ scan'[q].returned = "true") =>
                 scan'[p].code # scan'[q].code
       /\ \A p \in Procs :
             scan'[p].code = UnknownCode => scan'[p].returned # "true"]_vars

====
